---- MODULE Spec2Model ----
(***************************************************************************)
(* Model of BernoulliRng (src/src/lib.rs): a wrapper that turns a uniform  *)
(* 64-bit word source into a stream of Bernoulli(p) bits, 32 per word, by  *)
(* narrowing an interval [low, high] kept in f64.                          *)
(*                                                                         *)
(* f64 values are modelled exactly (IEEE-754 binary64, round to nearest,   *)
(* ties to even, subnormals, infinities, NaN).  Significands do not fit    *)
(* TLC's integers, so they are held as little-endian sequences of limbs.   *)
(***************************************************************************)
EXTENDS Integers, Sequences, FiniteSets, TLC

(***************************************************************************)
(* Arbitrary-precision naturals: little-endian limb sequences, radix Base, *)
(* no most-significant zero limb; the empty sequence is 0.                 *)
(***************************************************************************)
Base == 2^15

RECURSIVE IntBitLen(_)
IntBitLen(n) == IF n = 0 THEN 0 ELSE 1 + IntBitLen(n \div 2)

\* bits per limb
LimbBits == IntBitLen(Base - 1)

Pow2(k) == 2^k

RECURSIVE BNorm(_)
BNorm(a) ==
    IF a = <<>> THEN <<>>
    ELSE IF a[Len(a)] = 0 THEN BNorm(SubSeq(a, 1, Len(a) - 1))
    ELSE a

BLimb(a, i) == IF i >= 1 /\ i <= Len(a) THEN a[i] ELSE 0

BMaxLen(a, b) == IF Len(a) >= Len(b) THEN Len(a) ELSE Len(b)

BFromInt(n) ==
    BNorm(<< n % Base, (n \div Base) % Base, n \div (Base * Base) >>)

RECURSIVE BCmpAt(_, _, _)
BCmpAt(a, b, i) ==
    IF i = 0 THEN 0
    ELSE IF BLimb(a, i) > BLimb(b, i) THEN 1
    ELSE IF BLimb(a, i) < BLimb(b, i) THEN -1
    ELSE BCmpAt(a, b, i - 1)

\* -1, 0, 1 as a < b, a = b, a > b
BCmp(a, b) == BCmpAt(a, b, BMaxLen(a, b))

RECURSIVE BAddAt(_, _, _, _, _)
BAddAt(a, b, i, n, c) ==
    IF i > n THEN (IF c = 0 THEN <<>> ELSE <<c>>)
    ELSE LET t == BLimb(a, i) + BLimb(b, i) + c
         IN  <<t % Base>> \o BAddAt(a, b, i + 1, n, t \div Base)

BAdd(a, b) == BAddAt(a, b, 1, BMaxLen(a, b), 0)

RECURSIVE BSubAt(_, _, _, _, _)
BSubAt(a, b, i, n, br) ==
    IF i > n THEN <<>>
    ELSE LET t == BLimb(a, i) - BLimb(b, i) - br
         IN  IF t < 0 THEN <<t + Base>> \o BSubAt(a, b, i + 1, n, 1)
             ELSE <<t>> \o BSubAt(a, b, i + 1, n, 0)

\* a - b for a >= b
BSub(a, b) == BNorm(BSubAt(a, b, 1, Len(a), 0))

RECURSIVE BMulSmallAt(_, _, _, _)
BMulSmallAt(a, d, i, c) ==
    IF i > Len(a) THEN (IF c = 0 THEN <<>> ELSE <<c>>)
    ELSE LET t == a[i] * d + c
         IN  <<t % Base>> \o BMulSmallAt(a, d, i + 1, t \div Base)

\* a * d for 0 <= d < Base
BMulSmall(a, d) == IF d = 0 THEN <<>> ELSE BMulSmallAt(a, d, 1, 0)

BZeros(n) == [i \in 1..n |-> 0]

RECURSIVE BMulAt(_, _, _)
BMulAt(a, b, i) ==
    IF i > Len(b) THEN <<>>
    ELSE BAdd(BZeros(i - 1) \o BMulSmall(a, b[i]), BMulAt(a, b, i + 1))

BMul(a, b) == BNorm(BMulAt(a, b, 1))

\* a * 2^k
BShl(a, k) ==
    IF a = <<>> THEN <<>>
    ELSE BZeros(k \div LimbBits) \o BMulSmall(a, Pow2(k % LimbBits))

\* floor(a / 2^k)
BShr(a, k) ==
    LET q == k \div LimbBits
        r == k % LimbBits
        n == Len(a) - q
    IN  IF n <= 0 THEN <<>>
        ELSE BNorm([i \in 1..n |->
                      (a[i + q] \div Pow2(r))
                      + (BLimb(a, i + q + 1) % Pow2(r)) * Pow2(LimbBits - r)])

\* bit k of a (bit 0 is the least significant)
BBit(a, k) == (BLimb(a, (k \div LimbBits) + 1) \div Pow2(k % LimbBits)) % 2

\* number of significant bits of a
BBitLen(a) ==
    IF a = <<>> THEN 0 ELSE (Len(a) - 1) * LimbBits + IntBitLen(a[Len(a)])

\* a mod 2^k
BLow(a, k) == BSub(a, BShl(BShr(a, k), k))

RECURSIVE BDivBits(_, _, _, _, _, _)
\* n steps of binary long division, from bit i of num downwards
BDivBits(num, den, i, n, q, r) ==
    IF n = 0 THEN <<q, r>>
    ELSE LET r2 == BAdd(BMulSmall(r, 2), IF BBit(num, i) = 1 THEN <<1>> ELSE <<>>)
             q2 == BMulSmall(q, 2)
         IN  IF BCmp(r2, den) >= 0
             THEN BDivBits(num, den, i - 1, n - 1, BAdd(q2, <<1>>), BSub(r2, den))
             ELSE BDivBits(num, den, i - 1, n - 1, q2, r2)

RECURSIVE BDivAt(_, _, _, _)
BDivAt(num, den, i, qr) ==
    IF i < 0 THEN qr
    ELSE LET n  == IF i + 1 < LimbBits THEN i + 1 ELSE LimbBits
             nx == BDivBits(num, den, i, n, qr[1], qr[2])
         IN  IF Len(nx[1]) >= 0 THEN BDivAt(num, den, i - n, nx) ELSE nx

\* << floor(num / den), num mod den >> for den > 0
BDivMod(num, den) == BDivAt(num, den, BBitLen(num) - 1, << <<>>, <<>> >>)

RECURSIVE BFromHexAt(_, _, _)
BFromHexAt(ds, i, acc) ==
    IF i > Len(ds) THEN acc
    ELSE BFromHexAt(ds, i + 1, BAdd(BMulSmall(acc, 16), BFromInt(ds[i])))

\* the natural written by the hexadecimal digits ds, most significant first
BFromHex(ds) == BFromHexAt(ds, 1, <<>>)

(***************************************************************************)
(* f64.  A value is [k, s, m, e]: kind "fin", "inf" or "nan", sign bit s,  *)
(* and for a finite value the magnitude m * 2^e with m < 2^MantBits, kept  *)
(* canonical (m >= 2^(MantBits-1), or e = MinExp for subnormals and zero). *)
(***************************************************************************)
MantBits == 53
MinExp == -1074
MaxExp == 971

Fin(s, m, e) == [k |-> "fin", s |-> s, m |-> m, e |-> e]
FInf(s) == [k |-> "inf", s |-> s, m |-> <<>>, e |-> 0]
FNaN(s) == [k |-> "nan", s |-> s, m |-> <<>>, e |-> 0]
FZero(s) == Fin(s, <<>>, MinExp)

IsNaN(x) == x.k = "nan"
IsZero(x) == x.k = "fin" /\ x.m = <<>>

\* the f64 nearest to (-1)^s * M * 2^E, ties to even
FRound(s, M, E) ==
    IF M = <<>> THEN FZero(s)
    ELSE
      LET n  == BBitLen(M)
          e0 == E + n - MantBits
          e1 == IF e0 > MinExp THEN e0 ELSE MinExp
      IN  IF e1 <= E
          THEN (IF e1 > MaxExp THEN FInf(s) ELSE Fin(s, BShl(M, E - e1), e1))
          ELSE
            LET sh   == e1 - E
                q    == BShr(M, sh)
                half == BBit(M, sh - 1) = 1
                rest == BLow(M, sh - 1) # <<>>
                up   == half /\ (rest \/ BBit(q, 0) = 1)
                q2   == IF up THEN BAdd(q, <<1>>) ELSE q
                m3   == IF BBitLen(q2) > MantBits THEN BShr(q2, 1) ELSE q2
                e3   == IF BBitLen(q2) > MantBits THEN e1 + 1 ELSE e1
            IN  IF e3 > MaxExp THEN FInf(s) ELSE Fin(s, m3, e3)

FNeg(x) == [x EXCEPT !.s = 1 - x.s]

\* -1, 0, 1: the magnitudes of two non-NaN values compared
FMagCmp(a, b) ==
    IF a.k = "inf" THEN (IF b.k = "inf" THEN 0 ELSE 1)
    ELSE IF b.k = "inf" THEN -1
    ELSE IF a.e > b.e THEN 1
    ELSE IF a.e < b.e THEN -1
    ELSE BCmp(a.m, b.m)

\* a < b (false when either is NaN; -0.0 and 0.0 are equal)
FLt(a, b) ==
    IF IsNaN(a) \/ IsNaN(b) THEN FALSE
    ELSE IF IsZero(a) /\ IsZero(b) THEN FALSE
    ELSE IF a.s = 1 /\ b.s = 0 THEN TRUE
    ELSE IF a.s = 0 /\ b.s = 1 THEN FALSE
    ELSE IF a.s = 0 THEN FMagCmp(a, b) < 0
    ELSE FMagCmp(a, b) > 0

FGt(a, b) == FLt(b, a)

FLe(a, b) == ~IsNaN(a) /\ ~IsNaN(b) /\ ~FLt(b, a)

FAdd(a, b) ==
    IF IsNaN(a) \/ IsNaN(b) THEN FNaN(0)
    ELSE IF a.k = "inf"
         THEN (IF b.k = "inf" /\ b.s # a.s THEN FNaN(0) ELSE a)
    ELSE IF b.k = "inf" THEN b
    ELSE
      LET big   == IF FMagCmp(a, b) >= 0 THEN a ELSE b
          small == IF FMagCmp(a, b) >= 0 THEN b ELSE a
          far   == big.e - small.e > MantBits + 3
          \* a summand more than MantBits + 3 binary places below the other
          \* can only break a tie: it is replaced by one unit 3 places down
          e == IF far THEN big.e - 3 ELSE small.e
          A == BShl(big.m, big.e - e)
          B == IF far THEN <<1>> ELSE small.m
      IN  IF IsZero(small) THEN (IF IsZero(big) /\ a.s # b.s THEN FZero(0)
                                 ELSE IF IsZero(big) THEN a ELSE big)
          ELSE IF a.s = b.s THEN FRound(a.s, BAdd(A, B), e)
          ELSE IF BCmp(A, B) = 0 THEN FZero(0)
          ELSE FRound(big.s, BSub(A, B), e)

FSub(a, b) == FAdd(a, FNeg(b))

FMul(a, b) ==
    LET s == (a.s + b.s) % 2
    IN  IF IsNaN(a) \/ IsNaN(b) THEN FNaN(0)
        ELSE IF a.k = "inf" \/ b.k = "inf"
             THEN (IF IsZero(a) \/ IsZero(b) THEN FNaN(0) ELSE FInf(s))
        ELSE FRound(s, BMul(a.m, b.m), a.e + b.e)

\* f64::recip: 1.0 / x
FRecip(x) ==
    IF IsNaN(x) THEN FNaN(0)
    ELSE IF x.k = "inf" THEN FZero(x.s)
    ELSE IF IsZero(x) THEN FInf(x.s)
    ELSE
      LET K  == BBitLen(x.m) + MantBits + 2
          qr == BDivMod(BShl(<<1>>, K), x.m)
          M  == BAdd(BMulSmall(qr[1], 2), IF qr[2] = <<>> THEN <<>> ELSE <<1>>)
      IN  FRound(x.s, M, (0 - K) - x.e - 1)

F0 == FZero(0)
F1 == FRound(0, <<1>>, 0)
FHalf == FRound(0, <<1>>, -1)

FIsSignNegative(x) == x.s = 1

(***************************************************************************)
(* Machine words: a u64 is a function from bit position 0..63 (0 the least *)
(* significant) to {0, 1}; a u32 likewise over 0..31.                      *)
(***************************************************************************)
U64Zero == [j \in 0..63 |-> 0]
U32Zero == [j \in 0..31 |-> 0]

\* w >> 1 on u64
Shr1(w) == [j \in 0..63 |-> IF j = 63 THEN 0 ELSE w[j + 1]]

\* (r >> 1) | (b << 31) on u32: packing from the other end
Shr1Or(r, b) == [j \in 0..31 |-> IF j = 31 THEN b ELSE r[j + 1]]

\* (r << 1) | b on u32
Shl1Or(r, b) == [j \in 0..31 |-> IF j = 0 THEN b ELSE r[j - 1]]

\* the u64 written by 16 hexadecimal digits, most significant first
U64FromHex(ds) == [j \in 0..63 |-> (ds[16 - (j \div 4)] \div Pow2(j % 4)) % 2]

(***************************************************************************)
(* Bounds of the exploration and the inputs it draws.                      *)
(***************************************************************************)
MaxWords == 2
MaxCalls == 3

\* 64-bit words the uniform source may return
W1   == U64FromHex(<<0,0,0,0,0,0,0,0,0,0,0,0,0,0,0,1>>)
W03  == U64FromHex(<<0,0,7,3,3,3,3,3,3,3,3,3,3,3,3,2>>)
W5   == U64FromHex(<<5,5,5,5,5,5,5,5,5,5,5,5,5,5,5,5>>)
WF   == U64FromHex(<<15,15,15,15,15,15,15,15,15,15,15,15,15,15,15,15>>)
Words == {W1, W03, W5, WF}

\* probabilities handed to new
P075 == FRound(0, <<3>>, -2)
P03  == FRound(0, BFromHex(<<1,3,3,3,3,3,3,3,3,3,3,3,3,3>>), -54)
POneUp == FRound(0, BFromHex(<<1,0,0,0,0,0,0,0,0,0,0,0,0,1>>), -52)
Probabilities ==
    { F0, F1, FHalf, P075, P03, FNaN(0),
      FZero(1), FNeg(FHalf), FNeg(FRound(0, <<1>>, MinExp)), POneUp,
      FInf(0), FInf(1), FNaN(1) }

(***************************************************************************)
(* BernoulliRng.  A generator is a record: pc is where its caller stands   *)
(* ("idle" between calls, "loop" inside next_u32), p, low, high, shift,    *)
(* bits are the struct's fields, ret, i, l_high, l_low, p_recip and        *)
(* pinv_recip the locals of next_u32, and taken counts the words it has    *)
(* drawn from its rng.                                                     *)
(***************************************************************************)
NoGen == [pc |-> "new"]
ErrGen == [pc |-> "err", err |-> "InvalidProbability"]

\* new with the sign test written as a comparison with 0.0
new_compares(probability) ==
    IF FLt(probability, F0) \/ FGt(probability, F1)
    THEN ErrGen
    ELSE [pc |-> "idle", p |-> probability, low |-> F0, high |-> F1,
          shift |-> 0, bits |-> U64Zero, taken |-> 0,
          ret |-> U32Zero, i |-> 0, l_high |-> F0, l_low |-> F0,
          p_recip |-> F0, pinv_recip |-> F0]

\* BernoulliRng::new
new(probability) ==
    IF FIsSignNegative(probability) \/ FGt(probability, F1)
    THEN ErrGen
    ELSE [pc |-> "idle", p |-> probability, low |-> F0, high |-> F1,
          shift |-> 0, bits |-> U64Zero, taken |-> 0,
          ret |-> U32Zero, i |-> 0, l_high |-> F0, l_low |-> F0,
          p_recip |-> F0, pinv_recip |-> F0]

\* a source shared by every generator instead of owned by one
RngIndex_shared(own, total) == total + 1

\* the position, in its source's stream, of the word self.rng.next_u64()
\* returns: the generator owns its rng, so the one after those it has taken
RngIndex(own, total) == own + 1

\* next_bit without self.bits >>= 1
next_bit_noshift(self, word) ==
    LET refill == self.shift = 0
        bits0  == IF refill THEN word ELSE self.bits
        shift0 == IF refill THEN 64 ELSE self.shift
    IN  << [self EXCEPT !.bits = bits0, !.shift = shift0 - 1,
                        !.taken = IF refill THEN @ + 1 ELSE @],
           bits0[0] >>

\* next_bit: << self afterwards, the bit returned >>; word is what
\* self.rng.next_u64() returns if called
next_bit(self, word) ==
    LET refill == self.shift = 0
        bits0  == IF refill THEN word ELSE self.bits
        shift0 == IF refill THEN 64 ELSE self.shift
    IN  << [self EXCEPT !.bits = Shr1(bits0), !.shift = shift0 - 1,
                        !.taken = IF refill THEN @ + 1 ELSE @],
           bits0[0] >>

\* next_u32 starting every word from the whole interval
Enter_resets(self) ==
    [self EXCEPT !.pc = "loop", !.ret = U32Zero, !.i = 0,
                 !.l_high = F1, !.l_low = F0,
                 !.p_recip = FRecip(self.p),
                 !.pinv_recip = FRecip(FSub(F1, self.p))]

\* next_u32, lines 86-87: the locals
Enter(self) ==
    [self EXCEPT !.pc = "loop", !.ret = U32Zero, !.i = 0,
                 !.l_high = self.high, !.l_low = self.low,
                 !.p_recip = FRecip(self.p),
                 !.pinv_recip = FRecip(FSub(F1, self.p))]

\* the branch one iteration of the loop takes
Decide(low, high, p) ==
    IF FLt(high, p) THEN "one"
    ELSE IF FGt(low, p) THEN "zero"
    ELSE "draw"

ScaleOne(x, p_recip) == FMul(x, p_recip)
ScaleZero(x, p, pinv_recip) == FMul(FSub(x, p), pinv_recip)
Mid(low, high) == FMul(FHalf, FAdd(low, high))

\* the first branch without the | 1
EmitOne_nobit(self) ==
    [self EXCEPT !.ret = Shl1Or(self.ret, 0), !.i = self.i + 1,
                 !.l_low = ScaleOne(self.l_low, self.p_recip),
                 !.l_high = ScaleOne(self.l_high, self.p_recip)]

\* lines 90-93
EmitOne(self) ==
    [self EXCEPT !.ret = Shl1Or(self.ret, 1), !.i = self.i + 1,
                 !.l_low = ScaleOne(self.l_low, self.p_recip),
                 !.l_high = ScaleOne(self.l_high, self.p_recip)]

\* lines 95-98
EmitZero(self) ==
    [self EXCEPT !.ret = Shl1Or(self.ret, 0), !.i = self.i + 1,
                 !.l_low = ScaleZero(self.l_low, self.p, self.pinv_recip),
                 !.l_high = ScaleZero(self.l_high, self.p, self.pinv_recip)]

\* lines 100-105
Narrow(self, word) ==
    LET mid == Mid(self.l_low, self.l_high)
        nb  == next_bit(self, word)
    IN  IF nb[2] = 1 THEN [nb[1] EXCEPT !.l_low = mid]
        ELSE [nb[1] EXCEPT !.l_high = mid]

\* lines 108-110
Leave(self) ==
    [self EXCEPT !.pc = "idle", !.high = self.l_high, !.low = self.l_low]

(***************************************************************************)
(* The uninterrupted narrowing loop: lines 88-107 run on and on from the   *)
(* interval [0, 1], never leaving to return a word.  r is its interval,    *)
(* the bits it has emitted and the number of uniform bits it has used; tp  *)
(* is the source's stream.  It waits when its next uniform bit is not in   *)
(* tp yet.                                                                 *)
(***************************************************************************)
RefInit == [low |-> F0, high |-> F1, out |-> <<>>, consumed |-> 0]

RefStep(r, p, p_recip, pinv_recip, tp) ==
    LET d   == Decide(r.low, r.high, p)
        idx == (r.consumed \div 64) + 1
        mid == Mid(r.low, r.high)
    IN  IF d = "one"
        THEN [r EXCEPT !.low = ScaleOne(r.low, p_recip),
                       !.high = ScaleOne(r.high, p_recip),
                       !.out = Append(r.out, 1)]
        ELSE IF d = "zero"
        THEN [r EXCEPT !.low = ScaleZero(r.low, p, pinv_recip),
                       !.high = ScaleZero(r.high, p, pinv_recip),
                       !.out = Append(r.out, 0)]
        ELSE IF idx > Len(tp) THEN r
        ELSE IF tp[idx][r.consumed % 64] = 1
        THEN [r EXCEPT !.low = mid, !.consumed = r.consumed + 1]
        ELSE [r EXCEPT !.high = mid, !.consumed = r.consumed + 1]

(***************************************************************************)
(* State.  gen is the generator under study and hist what its caller has   *)
(* seen of it: arg the probability passed to new, calls the calls begun,   *)
(* emitted the bits decided in the current call, outs the words returned   *)
(* (each with the number of source words taken by then), decided the bits  *)
(* decided in each finished call, consumed the uniform bits next_bit has   *)
(* handed out and lastbit the latest of them.  tape is the stream of words *)
(* the source has returned so far.  twin and thist are a second generator  *)
(* built with the same probability over a replay of the same source, ref   *)
(* is the uninterrupted loop, turn says which generator of the pair moves. *)
(***************************************************************************)
VARIABLES gen, hist, tape, twin, thist, ref, turn

vars == <<gen, hist, tape, twin, thist, ref, turn>>

HistInit(probability) ==
    [arg |-> probability, calls |-> 0, emitted |-> <<>>, outs |-> <<>>,
     decided |-> <<>>, consumed |-> 0, lastbit |-> 0]

NoHist == [calls |-> 0]

Taken(g) == IF g.pc \in {"new", "err"} THEN 0 ELSE g.taken

InLoop(g) == g.pc = "loop" /\ g.i # 32

Init ==
    /\ gen = NoGen
    /\ hist = NoHist
    /\ tape = <<>>
    /\ twin = NoGen
    /\ thist = NoHist
    /\ ref = RefInit
    /\ turn = 1

\* let mut distr = BernoulliRng::new(rng, probability)
ANew(g, gn, hn, probability) ==
    /\ g.pc = "new"
    /\ gn = new(probability)
    /\ hn = HistInit(probability)

\* distr.next_u32() is called
ACall(g, h, gn, hn) ==
    /\ g.pc = "idle"
    /\ h.calls < MaxCalls
    /\ gn = Enter(g)
    /\ hn = [h EXCEPT !.calls = h.calls + 1, !.emitted = <<>>]

\* one iteration of the loop through its first branch
AOne(g, h, gn, hn) ==
    /\ InLoop(g)
    /\ Decide(g.l_low, g.l_high, g.p) = "one"
    /\ gn = EmitOne(g)
    /\ hn = [h EXCEPT !.emitted = Append(h.emitted, 1)]

\* one iteration of the loop through its second branch
AZero(g, h, gn, hn) ==
    /\ InLoop(g)
    /\ Decide(g.l_low, g.l_high, g.p) = "zero"
    /\ gn = EmitZero(g)
    /\ hn = [h EXCEPT !.emitted = Append(h.emitted, 0)]

\* one iteration of the loop through its last branch; the source returns a
\* fresh word, or replays the one already on the tape at that position
ADraw(g, h, gn, hn, total) ==
    /\ InLoop(g)
    /\ Decide(g.l_low, g.l_high, g.p) = "draw"
    /\ LET idx == RngIndex(g.taken, total)
       IN  IF g.shift # 0
           THEN /\ gn = Narrow(g, U64Zero)
                /\ hn = [h EXCEPT !.consumed = h.consumed + 1,
                                  !.lastbit = next_bit(g, U64Zero)[2]]
                /\ tape' = tape
           ELSE /\ idx <= MaxWords
                /\ idx <= Len(tape) + 1
                /\ \E w \in (IF idx <= Len(tape) THEN {tape[idx]} ELSE Words) :
                      /\ gn = Narrow(g, w)
                      /\ hn = [h EXCEPT !.consumed = h.consumed + 1,
                                        !.lastbit = next_bit(g, w)[2]]
                      /\ tape' = IF idx <= Len(tape) THEN tape
                                 ELSE Append(tape, w)

\* the loop ends and next_u32 returns ret
ALeave(g, h, gn, hn) ==
    /\ g.pc = "loop"
    /\ g.i = 32
    /\ gn = Leave(g)
    /\ hn = [h EXCEPT !.outs = Append(h.outs, [word |-> g.ret, taken |-> g.taken]),
                      !.decided = Append(h.decided, h.emitted)]

(***************************************************************************)
(* Spec: one generator and its caller.                                     *)
(***************************************************************************)
New ==
    /\ \E probability \in Probabilities : ANew(gen, gen', hist', probability)
    /\ UNCHANGED <<tape, twin, thist, ref, turn>>

Call ==
    /\ ACall(gen, hist, gen', hist')
    /\ UNCHANGED <<tape, twin, thist, ref, turn>>

StepOne ==
    /\ AOne(gen, hist, gen', hist')
    /\ UNCHANGED <<tape, twin, thist, ref, turn>>

StepZero ==
    /\ AZero(gen, hist, gen', hist')
    /\ UNCHANGED <<tape, twin, thist, ref, turn>>

StepDraw ==
    /\ ADraw(gen, hist, gen', hist', Taken(gen))
    /\ UNCHANGED <<twin, thist, ref, turn>>

Return ==
    /\ ALeave(gen, hist, gen', hist')
    /\ UNCHANGED <<tape, twin, thist, ref, turn>>

Next == New \/ Call \/ StepOne \/ StepZero \/ StepDraw \/ Return

Spec == Init /\ [][Next]_vars

(***************************************************************************)
(* SpecRef: the generator, with the uninterrupted loop run beside it on    *)
(* the same stream: it takes a step whenever the generator's loop does.    *)
(***************************************************************************)
RefNew ==
    /\ \E probability \in Probabilities : ANew(gen, gen', hist', probability)
    /\ UNCHANGED <<tape, twin, thist, ref, turn>>

RefCall ==
    /\ ACall(gen, hist, gen', hist')
    /\ UNCHANGED <<tape, twin, thist, ref, turn>>

RefOne ==
    /\ AOne(gen, hist, gen', hist')
    /\ ref' = RefStep(ref, gen.p, gen.p_recip, gen.pinv_recip, tape)
    /\ UNCHANGED <<tape, twin, thist, turn>>

RefZero ==
    /\ AZero(gen, hist, gen', hist')
    /\ ref' = RefStep(ref, gen.p, gen.p_recip, gen.pinv_recip, tape)
    /\ UNCHANGED <<tape, twin, thist, turn>>

RefDraw ==
    /\ ADraw(gen, hist, gen', hist', Taken(gen))
    /\ ref' = RefStep(ref, gen.p, gen.p_recip, gen.pinv_recip, tape')
    /\ UNCHANGED <<twin, thist, turn>>

RefReturn ==
    /\ ALeave(gen, hist, gen', hist')
    /\ UNCHANGED <<tape, twin, thist, ref, turn>>

NextRef == RefNew \/ RefCall \/ RefOne \/ RefZero \/ RefDraw \/ RefReturn

SpecRef == Init /\ [][NextRef]_vars

(***************************************************************************)
(* SpecPair: two generators built with the same probability, each owning a *)
(* replay of the same source; they move in turn.                           *)
(***************************************************************************)
PairNew ==
    /\ \E probability \in Probabilities :
          /\ ANew(gen, gen', hist', probability)
          /\ ANew(twin, twin', thist', probability)
    /\ UNCHANGED <<tape, ref, turn>>

GenCall ==
    /\ turn = 1 /\ turn' = 2
    /\ ACall(gen, hist, gen', hist')
    /\ UNCHANGED <<tape, twin, thist, ref>>

GenOne ==
    /\ turn = 1 /\ turn' = 2
    /\ AOne(gen, hist, gen', hist')
    /\ UNCHANGED <<tape, twin, thist, ref>>

GenZero ==
    /\ turn = 1 /\ turn' = 2
    /\ AZero(gen, hist, gen', hist')
    /\ UNCHANGED <<tape, twin, thist, ref>>

GenDraw ==
    /\ turn = 1 /\ turn' = 2
    /\ ADraw(gen, hist, gen', hist', Taken(gen) + Taken(twin))
    /\ UNCHANGED <<twin, thist, ref>>

GenReturn ==
    /\ turn = 1 /\ turn' = 2
    /\ ALeave(gen, hist, gen', hist')
    /\ UNCHANGED <<tape, twin, thist, ref>>

TwinCall ==
    /\ turn = 2 /\ turn' = 1
    /\ ACall(twin, thist, twin', thist')
    /\ UNCHANGED <<tape, gen, hist, ref>>

TwinOne ==
    /\ turn = 2 /\ turn' = 1
    /\ AOne(twin, thist, twin', thist')
    /\ UNCHANGED <<tape, gen, hist, ref>>

TwinZero ==
    /\ turn = 2 /\ turn' = 1
    /\ AZero(twin, thist, twin', thist')
    /\ UNCHANGED <<tape, gen, hist, ref>>

TwinDraw ==
    /\ turn = 2 /\ turn' = 1
    /\ ADraw(twin, thist, twin', thist', Taken(gen) + Taken(twin))
    /\ UNCHANGED <<gen, hist, ref>>

TwinReturn ==
    /\ turn = 2 /\ turn' = 1
    /\ ALeave(twin, thist, twin', thist')
    /\ UNCHANGED <<tape, gen, hist, ref>>

NextPair ==
    \/ PairNew
    \/ GenCall \/ GenOne \/ GenZero \/ GenDraw \/ GenReturn
    \/ TwinCall \/ TwinOne \/ TwinZero \/ TwinDraw \/ TwinReturn

SpecPair == Init /\ [][NextPair]_vars

(***************************************************************************)
(* Properties.                                                             *)
(***************************************************************************)
U32Ones == [j \in 0..31 |-> 1]

Built(g) == g.pc \in {"idle", "loop"}

\* a real number in [0, 1]
InUnit(x) == x.k = "fin" /\ x.s = 0 /\ FMagCmp(x, F1) <= 0
\* below zero, or zero with the sign bit set
Negative(x) == ~IsNaN(x) /\ x.s = 1
\* above 1.0
AboveOne(x) == ~IsNaN(x) /\ x.s = 0 /\ FMagCmp(x, F1) > 0

\* the bits of a returned word, most significant first
WordBits(w) == [j \in 1..32 |-> w[32 - j]]

RECURSIVE ConcatWords(_)
ConcatWords(outs) ==
    IF outs = <<>> THEN <<>>
    ELSE ConcatWords(SubSeq(outs, 1, Len(outs) - 1)) \o WordBits(outs[Len(outs)].word)

\* C1: new returns Err(InvalidProbability) for every negative probability,
\* for -0.0 and for every probability above 1.0, and Ok for every
\* probability in [0.0, 1.0], the ends included.
C1_Validation ==
    gen.pc # "new" =>
        /\ (Negative(hist.arg) \/ AboveOne(hist.arg)) => gen.pc = "err"
        /\ InUnit(hist.arg) => Built(gen)

C1_Witness == gen.pc = "err" /\ hist.arg = FZero(1)

\* C2: for 0 < p < 1 the interval the generator holds between calls (after
\* construction and after every completed next_u32) satisfies
\* 0 <= low < high <= 1.
C2_IntervalInvariant ==
    (gen.pc = "idle" /\ FLt(F0, gen.p) /\ FLt(gen.p, F1)) =>
        /\ FLe(F0, gen.low)
        /\ FLt(gen.low, gen.high)
        /\ FLe(gen.high, F1)

\* the loop stands at an interval no uniform bit can change and that decides
\* no output bit: whatever the source supplies, next_u32 never returns
Stuck(g) ==
    /\ InLoop(g)
    /\ Decide(g.l_low, g.l_high, g.p) = "draw"
    /\ g.l_low = g.l_high
    /\ Mid(g.l_low, g.l_high) = g.l_low

\* once stuck the loop stays stuck and emits nothing, whatever bit arrives
Stuck_Stays ==
    [][Stuck(gen) => (Stuck(gen') /\ hist'.emitted = hist.emitted)]_vars

\* C3: every call of next_u32 on a constructed generator returns: the loop
\* is never in a state from which it cannot reach 32 emitted bits.
C3_Returns == ~Stuck(gen)

\* C4: a generator built with p = 0.0 returns only 0x00000000 and one built
\* with p = 1.0 only 0xFFFFFFFF, at every call and for every source.
C4_Degenerate ==
    Built(gen) =>
        \A k \in 1..Len(hist.outs) :
            /\ gen.p = F0 => hist.outs[k].word = U32Zero
            /\ gen.p = F1 => hist.outs[k].word = U32Ones

C4_Witness == Built(gen) /\ gen.p = F1 /\ Len(hist.outs) >= 2

C6_Packing ==
    Built(gen) =>
        \A k \in 1..Len(hist.outs) :
            /\ Len(hist.decided[k]) = 32
            /\ \A j \in 1..32 : hist.outs[k].word[32 - j] = hist.decided[k][j]

C6_Witness ==
    /\ Built(gen)
    /\ Len(hist.outs) >= 1
    /\ hist.decided[1][1] # hist.decided[1][32]
    /\ hist.outs[1].word[31] = hist.decided[1][1]

\* C7: the probability a constructed generator holds is a real number in
\* [0, 1], the one passed to new, and no call changes it.
C7_Probability ==
    Built(gen) => (InUnit(gen.p) /\ gen.p = hist.arg)

\* C8: every iteration of the loop is of exactly one of three kinds: with
\* high < p it emits 1 and rescales the interval by 1/p; else with low > p
\* it emits 0 and maps the interval by (x - p)/(1 - p); otherwise
\* low <= p <= high, it emits nothing, takes exactly one bit from the
\* reservoir and moves low (bit 1) or high (bit 0) to the midpoint.  The
\* emitting kinds take no bit and draw no word.
KeepsReservoir ==
    /\ hist'.consumed = hist.consumed
    /\ tape' = tape
    /\ gen'.shift = gen.shift
    /\ gen'.bits = gen.bits

KindOne ==
    /\ FLt(gen.l_high, gen.p)
    /\ hist'.emitted = Append(hist.emitted, 1)
    /\ gen'.l_low = FMul(gen.l_low, FRecip(gen.p))
    /\ gen'.l_high = FMul(gen.l_high, FRecip(gen.p))
    /\ KeepsReservoir

KindZero ==
    /\ ~FLt(gen.l_high, gen.p)
    /\ FGt(gen.l_low, gen.p)
    /\ hist'.emitted = Append(hist.emitted, 0)
    /\ gen'.l_low = FMul(FSub(gen.l_low, gen.p), FRecip(FSub(F1, gen.p)))
    /\ gen'.l_high = FMul(FSub(gen.l_high, gen.p), FRecip(FSub(F1, gen.p)))
    /\ KeepsReservoir

KindDraw ==
    /\ FLe(gen.l_low, gen.p)
    /\ FLe(gen.p, gen.l_high)
    /\ hist'.emitted = hist.emitted
    /\ hist'.consumed = hist.consumed + 1
    /\ \/ /\ hist'.lastbit = 1
          /\ gen'.l_low = FMul(FHalf, FAdd(gen.l_low, gen.l_high))
          /\ gen'.l_high = gen.l_high
       \/ /\ hist'.lastbit = 0
          /\ gen'.l_high = FMul(FHalf, FAdd(gen.l_low, gen.l_high))
          /\ gen'.l_low = gen.l_low

C8_ThreeKinds ==
    [][InLoop(gen) => (KindOne \/ KindZero \/ KindDraw)]_vars

\* C9: next_bit draws a word only when the count is 0, hands the word out
\* least significant bit first and completely: the count stays in 0..64,
\* the i-th bit consumed is bit i mod 64 of word floor(i / 64), the bits not
\* yet consumed are kept across calls, and after n bits ceil(n / 64) words
\* have been drawn.
C9_Reservoir ==
    Built(gen) =>
        LET n == hist.consumed
        IN  /\ gen.shift \in 0..64
            /\ Len(tape) = (n + 63) \div 64
            /\ gen.taken = Len(tape)
            /\ gen.shift = 64 * Len(tape) - n
            /\ n > 0 =>
                 /\ hist.lastbit = tape[((n - 1) \div 64) + 1][(n - 1) % 64]
                 /\ \A j \in 0..63 :
                      gen.bits[j] = IF j < gen.shift
                                    THEN tape[Len(tape)][j + 64 - gen.shift]
                                    ELSE 0

C9_Witness ==
    /\ Built(gen)
    /\ gen.pc = "idle"
    /\ Len(hist.outs) >= 2
    /\ hist.consumed > 64
    /\ gen.shift > 0
    /\ tape = <<W5, W03>>

\* C10: a call starts from the interval the previous call stored and stores
\* its own back, so the words of consecutive calls, concatenated, are the
\* bits of one uninterrupted run of the loop on the same uniform bits, which
\* uses the same number of them.
C10_Carry ==
    Built(gen) =>
        /\ ref.out = ConcatWords(hist.outs)
                       \o (IF gen.pc = "loop" THEN hist.emitted ELSE <<>>)
        /\ ref.consumed = hist.consumed
        /\ ref.low = (IF gen.pc = "loop" THEN gen.l_low ELSE gen.low)
        /\ ref.high = (IF gen.pc = "loop" THEN gen.l_high ELSE gen.high)

C10_Witness ==
    /\ Built(gen)
    /\ gen.pc = "idle"
    /\ Len(hist.outs) >= 2
    /\ gen.low # F0
    /\ FLt(gen.low, gen.high)
    /\ Len(ref.out) = 32 * Len(hist.outs)

====
